---- MODULE Spec2Model ----
(***************************************************************************)
(* A model of aws_whoami.py: whoami() (the identity-descriptor parser and  *)
(* the account-alias lookup with its suppression policy), the part of      *)
(* main() that turns AWS_WHOAMI_DISABLE_ACCOUNT_ALIAS into the argument of *)
(* whoami(), and format_whoami().                                          *)
(*                                                                         *)
(* A Python str is a sequence of one-character strings, so that split,    *)
(* rsplit, startswith, endswith, upper, lower and ljust are computed       *)
(* character by character as the interpreter computes them.  A Python list *)
(* is a sequence.  None is a value that no str is equal to.                *)
(***************************************************************************)
EXTENDS Integers, Sequences, FiniteSets, TLC

VARIABLES
    pc,                     \* position in whoami() / format_whoami()
    arg,                    \* the disable_account_alias argument as passed
    disable_account_alias,  \* the local variable, rebound by lines 157/161
    data,                   \* the dict built by whoami()
    yielded,                \* the pages the alias paginator has yielded
    raised,                 \* the exception a service call raised, if any
    calls,                  \* the service calls made so far, in order
    err,                    \* the exception that left whoami(), or NoErr
    result,                 \* the WhoamiInfo returned, or NoResult
    out                     \* what format_whoami(result) produced

vars == <<pc, arg, disable_account_alias, data, yielded, raised, calls, err,
          result, out>>

----------------------------------------------------------------------------
(* Bounds of the model.                                                    *)

\* Pages the alias paginator may yield before it is exhausted.
MaxPages == 2
\* Characters following the AWSReservedSSO prefix in a generated role name.
MaxTail == 3

----------------------------------------------------------------------------
(* Python values.                                                          *)

None == <<"None">>
\* str(None)
StrNone == <<"N","o","n","e">>

Bool(b) == [tag |-> "bool", b |-> b, list |-> <<>>]
List(l) == [tag |-> "list", b |-> FALSE, list |-> l]

\* isinstance(v, bool)
IsBool(v) == v.tag = "bool"

\* `not v`: a bool is negated, a list is falsy exactly when it is empty.
PyNot(v) == IF v.tag = "bool" THEN ~v.b ELSE Len(v.list) = 0

\* Truthiness of a str-or-None value (`if x:`).
Truthy(x) == x # None /\ Len(x) > 0

\* "{}".format(x)
Format(x) == IF x = None THEN StrNone ELSE x

----------------------------------------------------------------------------
(* str methods.                                                            *)

Lowers == <<"a","b","c","d","e","f","g","h","i","j","k","l","m",
            "n","o","p","q","r","s","t","u","v","w","x","y","z">>
Uppers == <<"A","B","C","D","E","F","G","H","I","J","K","L","M",
            "N","O","P","Q","R","S","T","U","V","W","X","Y","Z">>

UpperChar(c) ==
    IF \E i \in 1..Len(Lowers) : Lowers[i] = c
    THEN Uppers[CHOOSE i \in 1..Len(Lowers) : Lowers[i] = c]
    ELSE c

LowerChar(c) ==
    IF \E i \in 1..Len(Uppers) : Uppers[i] = c
    THEN Lowers[CHOOSE i \in 1..Len(Uppers) : Uppers[i] = c]
    ELSE c

\* s.lower()
Lower(s) == [i \in 1..Len(s) |-> LowerChar(s[i])]

\* s.startswith(p), s.endswith(p)
StartsWith(s, p) == Len(p) <= Len(s) /\ SubSeq(s, 1, Len(p)) = p
EndsWith(s, p) == Len(p) <= Len(s) /\ SubSeq(s, Len(s) - Len(p) + 1, Len(s)) = p

\* Positions of the first and of the last occurrence of character c; 0 if none.
Find(s, c) ==
    IF \E i \in 1..Len(s) : s[i] = c
    THEN CHOOSE i \in 1..Len(s) : s[i] = c /\ \A j \in 1..(i-1) : s[j] # c
    ELSE 0

RFind(s, c) ==
    IF \E i \in 1..Len(s) : s[i] = c
    THEN CHOOSE i \in 1..Len(s) : s[i] = c /\ \A j \in (i+1)..Len(s) : s[j] # c
    ELSE 0

\* s.split(c, 1): a list of one element when c does not occur in s.
Split1(s, c) ==
    LET i == Find(s, c)
    IN  IF i = 0 THEN <<s>>
        ELSE <<SubSeq(s, 1, i-1), SubSeq(s, i+1, Len(s))>>

\* s.rsplit(c, 1)
RSplit1(s, c) ==
    LET i == RFind(s, c)
    IN  IF i = 0 THEN <<s>>
        ELSE <<SubSeq(s, 1, i-1), SubSeq(s, i+1, Len(s))>>

\* s.split(c)
RECURSIVE Split(_, _)
Split(s, c) ==
    LET i == Find(s, c)
    IN  IF i = 0 THEN <<s>>
        ELSE <<SubSeq(s, 1, i-1)>> \o Split(SubSeq(s, i+1, Len(s)), c)

\* sep.join(l)
RECURSIVE Join(_, _)
Join(sep, l) ==
    IF Len(l) = 0 THEN <<>>
    ELSE IF Len(l) = 1 THEN l[1]
    ELSE l[1] \o sep \o Join(sep, Tail(l))

Max(S) == CHOOSE x \in S : \A y \in S : y <= x

\* s.ljust(n)
LJust(s, n) == s \o [i \in 1..(n - Len(s)) |-> " "]

\* The concatenation of a list of lists.
RECURSIVE Concat(_)
Concat(l) == IF Len(l) = 0 THEN <<>> ELSE l[1] \o Concat(Tail(l))

----------------------------------------------------------------------------
(* String literals of the program.                                         *)

AWSReservedSSO == <<"A","W","S","R","e","s","e","r","v","e","d","S","S","O">>
AssumedRoleType == <<"a","s","s","u","m","e","d","-","r","o","l","e">>
AccessDenied == <<"A","c","c","e","s","s","D","e","n","i","e","d">>
\* An error code other than AccessDenied.
Throttling == <<"T","h","r","o","t","t","l","i","n","g">>


----------------------------------------------------------------------------
(* Exceptions.                                                             *)

Exc(cls, code) == [cls |-> cls, code |-> code]
NoErr == Exc("none", None)
IndexError == Exc("IndexError", None)
ValueError == Exc("ValueError", None)

\* What a botocore client call can raise: a ClientError carrying an error
\* code (or no 'Error' entry at all, for which .get('Code') is None), or an
\* exception that is not a ClientError.
ClientErrors ==
    { Exc("ClientError", AccessDenied),
      Exc("ClientError", Throttling),
      Exc("ClientError", None) }
ServiceErrors == ClientErrors \cup { Exc("EndpointConnectionError", None) }

----------------------------------------------------------------------------
(* main(), lines 70-76: the argument of whoami() from the environment.     *)

DisableFromEnv(e) ==
    IF Lower(e) \in { <<>>, <<"0">>, <<"f","a","l","s","e">> }
    THEN Bool(FALSE)
    ELSE IF Lower(e) \in { <<"1">>, <<"t","r","u","e">> }
    THEN Bool(TRUE)
    ELSE List(Split(e, ","))

----------------------------------------------------------------------------
(* Inputs.                                                                 *)

EnvValues ==
    { <<>>, <<"0">>, <<"F","a","l","s","e">>,
      <<"1">>, <<"T","R","U","E">>,
      <<"2">>, <<"3">>, <<"3",",","2">>, <<"1",",","3">>, <<"3",",">>,
      <<"a">>, <<"s">>, StrNone,
      <<"a",":","u","s","e","r","/","a">> }

\* What a caller may pass as disable_account_alias: what main() passes, or
\* (calling whoami() as a library function) an empty list.
Arguments == { DisableFromEnv(e) : e \in EnvValues } \cup { List(<<>>) }

Regions == { None, <<"r">> }
Accounts == { <<"1","2">> }
UserIds == { <<"U">> }

RECURSIVE SeqsUpTo(_, _)
SeqsUpTo(S, n) ==
    IF n = 0 THEN { <<>> }
    ELSE LET shorter == SeqsUpTo(S, n - 1)
         IN  shorter \cup { Append(t, c) : t \in shorter, c \in S }

ColonPrefixes ==
    { <<>>, <<"a",":">>, <<"a",":","a",":","a",":","a",":","1",":">> }
TypeTokens == { <<>>, <<"u","s","e","r">>, AssumedRoleType }
NameTokens ==
    { <<>>, <<"a">> }
    \cup { AWSReservedSSO \o t : t \in SeqsUpTo({"a", "_"}, MaxTail) }
SessionSuffixes == { <<>>, <<"/">>, <<"/","s">>, <<"/","a","/","s">> }

\* Descriptors: well-formed ones, and ones with too few colon-delimited
\* segments, no '/', or an empty type, name or session segment.
Arns ==
    { p \o t : p \in ColonPrefixes, t \in TypeTokens }
    \cup { p \o t \o <<"/">> \o n \o s :
             p \in ColonPrefixes, t \in TypeTokens,
             n \in NameTokens, s \in SessionSuffixes }

\* The pages the paginator may yield: lists of aliases.
Pages == { <<>>, <<<<"x">>>>, <<<<"x">>, <<"y">>>> }

----------------------------------------------------------------------------
(* whoami(), lines 136-142: Type, Name and RoleSessionName from the Arn.   *)

\* ParseArn taking the last element of the rsplit instead of element [1].
ParseArnLastElement(arn) ==
    LET afterColon == RSplit1(arn, ":")
        parts == Split1(afterColon[Len(afterColon)], "/")
    IN  IF Len(parts) # 2 THEN [err |-> ValueError]
        ELSE IF parts[1] = AssumedRoleType
        THEN LET ns == RSplit1(parts[2], "/")
             IN  IF Len(ns) # 2 THEN [err |-> ValueError]
                 ELSE [err |-> NoErr, Type |-> parts[1],
                       Name |-> ns[1], RoleSessionName |-> ns[2]]
        ELSE [err |-> NoErr, Type |-> parts[1],
              Name |-> parts[2], RoleSessionName |-> None]

\* ParseArn with line 142 assigning '' instead of None.
ParseArnEmptySession(arn) ==
    LET afterColon == RSplit1(arn, ":")
    IN  IF Len(afterColon) < 2 THEN [err |-> IndexError]
        ELSE
        LET parts == Split1(afterColon[2], "/")
        IN  IF Len(parts) # 2 THEN [err |-> ValueError]
            ELSE IF parts[1] = AssumedRoleType
            THEN LET ns == RSplit1(parts[2], "/")
                 IN  IF Len(ns) # 2 THEN [err |-> ValueError]
                     ELSE [err |-> NoErr, Type |-> parts[1],
                           Name |-> ns[1], RoleSessionName |-> ns[2]]
            ELSE [err |-> NoErr, Type |-> parts[1],
                  Name |-> parts[2], RoleSessionName |-> <<>>]

ParseArn(arn) ==
    LET afterColon == RSplit1(arn, ":")
    IN  IF Len(afterColon) < 2 THEN [err |-> IndexError]
        ELSE
        LET parts == Split1(afterColon[2], "/")
        IN  IF Len(parts) # 2 THEN [err |-> ValueError]
            ELSE IF parts[1] = AssumedRoleType
            THEN LET ns == RSplit1(parts[2], "/")
                 IN  IF Len(ns) # 2 THEN [err |-> ValueError]
                     ELSE [err |-> NoErr, Type |-> parts[1],
                           Name |-> ns[1], RoleSessionName |-> ns[2]]
            ELSE [err |-> NoErr, Type |-> parts[1],
                  Name |-> parts[2], RoleSessionName |-> None]

(* whoami(), lines 144-151: the SSO permission set.                        *)

\* SSOPermissionSet with split('_', 1) in place of rsplit('_', 1).
SSOPermissionSetSplitFirst(type, name) ==
    IF type = AssumedRoleType /\ StartsWith(name, AWSReservedSSO)
    THEN LET afterFirst == Split1(name, "_")
         IN  IF Len(afterFirst) < 2 THEN None
             ELSE Split1(afterFirst[2], "_")[1]
    ELSE None

\* SSOPermissionSet without the test of the principal type on line 144.
SSOPermissionSetAnyType(type, name) ==
    IF StartsWith(name, AWSReservedSSO)
    THEN LET afterFirst == Split1(name, "_")
         IN  IF Len(afterFirst) < 2 THEN None
             ELSE RSplit1(afterFirst[2], "_")[1]
    ELSE None

SSOPermissionSet(type, name) ==
    IF type = AssumedRoleType /\ StartsWith(name, AWSReservedSSO)
    THEN LET afterFirst == Split1(name, "_")
         IN  IF Len(afterFirst) < 2 THEN None    \* IndexError, caught
             ELSE RSplit1(afterFirst[2], "_")[1]
    ELSE None

(* whoami(), lines 154-162: the value of disable_account_alias after the   *)
(* loop over the patterns.                                                 *)

\* PatternMatches comparing the pattern with str(data[field]).
PatternMatchesStr(value, d) ==
    \/ StartsWith(d.Account, value)
    \/ EndsWith(d.Account, value)
    \/ \E field \in {"Name", "Arn", "RoleSessionName"} : value = Format(d[field])

PatternMatches(value, d) ==
    \/ StartsWith(d.Account, value)
    \/ EndsWith(d.Account, value)
    \/ \E field \in {"Name", "Arn", "RoleSessionName"} : value = d[field]

RECURSIVE AnyPatternFrom(_, _, _)
AnyPatternFrom(l, i, d) ==
    IF i > Len(l) THEN FALSE
    ELSE IF PatternMatches(l[i], d) THEN TRUE
    ELSE AnyPatternFrom(l, i + 1, d)

SuppressLoop(v, d) ==
    IF IsBool(v) THEN v
    ELSE IF AnyPatternFrom(v.list, 1, d) THEN Bool(TRUE)
    ELSE v

(* whoami(), lines 169-171: whether the handler swallows the exception.    *)

\* Swallowed with == in place of != on line 170.
SwallowedInverted(e) == e.cls = "ClientError" /\ ~(e.code = AccessDenied)

\* Swallowed without the test of the error code.
SwallowedAnyCode(e) == e.cls = "ClientError"

Swallowed(e) == e.cls = "ClientError" /\ ~(e.code # AccessDenied)

(* format_whoami(), lines 94-110.                                          *)

\* Line 103: ''.join(p[0].upper() + p[1:] for p in Type.split('-')); p[0]
\* raises IndexError when a part is empty.
TypeStrParts(type) == Split(type, "-")
TypeStr(type) ==
    Concat([i \in 1..Len(TypeStrParts(type)) |->
              LET p == TypeStrParts(type)[i]
              IN  <<UpperChar(p[1])>> \o Tail(p)])

Line(label, value) == [label |-> label, value |-> value]

AccountLabel == <<"A","c","c","o","u","n","t",":"," ">>
RegionLabel == <<"R","e","g","i","o","n",":"," ">>
SSOLabel == <<"A","W","S"," ","S","S","O",":"," ">>
SessionLabel == <<"R","o","l","e","S","e","s","s","i","o","n","N","a","m","e",":"," ">>
UserIdLabel == <<"U","s","e","r","I","d",":"," ">>
ArnLabel == <<"A","r","n",":"," ">>

\* FormatLines with the Region line appended before the aliases.
FormatLinesRegionFirst(info) ==
    <<Line(AccountLabel, info.Account)>>
    \o <<Line(RegionLabel, info.Region)>>
    \o [i \in 1..Len(info.AccountAliases) |-> Line(<<>>, info.AccountAliases[i])]
    \o (IF Truthy(info.SSOPermissionSet)
        THEN <<Line(SSOLabel, info.SSOPermissionSet)>>
        ELSE <<Line(TypeStr(info.Type) \o <<":", " ">>, info.Name)>>)
    \o (IF Truthy(info.RoleSessionName)
        THEN <<Line(SessionLabel, info.RoleSessionName)>>
        ELSE <<>>)
    \o <<Line(UserIdLabel, info.UserId), Line(ArnLabel, info.Arn)>>

\* Lines 95-108: the list `lines`.
FormatLines(info) ==
    <<Line(AccountLabel, info.Account)>>
    \o [i \in 1..Len(info.AccountAliases) |-> Line(<<>>, info.AccountAliases[i])]
    \o <<Line(RegionLabel, info.Region)>>
    \o (IF Truthy(info.SSOPermissionSet)
        THEN <<Line(SSOLabel, info.SSOPermissionSet)>>
        ELSE <<Line(TypeStr(info.Type) \o <<":", " ">>, info.Name)>>)
    \o (IF Truthy(info.RoleSessionName)
        THEN <<Line(SessionLabel, info.RoleSessionName)>>
        ELSE <<>>)
    \o <<Line(UserIdLabel, info.UserId), Line(ArnLabel, info.Arn)>>

\* Lines 109-110.
FormatText(lines) ==
    LET max_len == Max({ Len(lines[i].label) : i \in 1..Len(lines) })
    IN  Join(<<"\n">>,
             [i \in 1..Len(lines) |->
                LJust(lines[i].label, max_len) \o Format(lines[i].value)])

\* Whether line 103 raises.
TypeStrRaises(info) ==
    /\ ~Truthy(info.SSOPermissionSet)
    /\ \E i \in 1..Len(TypeStrParts(info.Type)) : Len(TypeStrParts(info.Type)[i]) = 0

----------------------------------------------------------------------------
(* State.                                                                  *)

NoResult == [none |-> TRUE]
NoOut == [none |-> TRUE]
NotRaised == [by |-> "none", e |-> NoErr]

Init ==
    /\ pc = "start"
    /\ arg \in Arguments
    /\ disable_account_alias = arg
    /\ data = <<>>
    /\ yielded = <<>>
    /\ raised = NotRaised
    /\ calls = <<>>
    /\ err = NoErr
    /\ result = NoResult
    /\ out = NoOut

\* Lines 128-129.
Start ==
    /\ pc = "start"
    /\ \E r \in Regions : data' = [Region |-> r]
    /\ pc' = "sts"
    /\ UNCHANGED <<arg, disable_account_alias, yielded, raised, calls, err,
                   result, out>>

\* GetCallerIdentity calling the service again after an error.
GetCallerIdentityRetrying ==
    /\ pc = "sts"
    /\ calls' = Append(calls, "sts")
    /\ \/ \E e \in ServiceErrors :
            /\ raised' = [by |-> "sts", e |-> e]
            /\ err' = e
            /\ pc' = IF Len(calls) = 0 THEN "sts" ELSE "failed"
            /\ data' = data
       \/ \E acct \in Accounts, arn \in Arns, uid \in UserIds :
            /\ data' = [Account |-> acct, Arn |-> arn, UserId |-> uid] @@ data
            /\ pc' = "parse"
            /\ UNCHANGED <<raised, err>>
    /\ UNCHANGED <<arg, disable_account_alias, yielded, result, out>>

\* Lines 131-134: the call either raises, which leaves whoami(), or answers.
GetCallerIdentity ==
    /\ pc = "sts"
    /\ calls' = Append(calls, "sts")
    /\ \/ \E e \in ServiceErrors :
            /\ raised' = [by |-> "sts", e |-> e]
            /\ err' = e
            /\ pc' = "failed"
            /\ data' = data
       \/ \E acct \in Accounts, arn \in Arns, uid \in UserIds :
            /\ data' = [Account |-> acct, Arn |-> arn, UserId |-> uid] @@ data
            /\ pc' = "parse"
            /\ UNCHANGED <<raised, err>>
    /\ UNCHANGED <<arg, disable_account_alias, yielded, result, out>>

\* Lines 136-142.
Parse ==
    /\ pc = "parse"
    /\ LET p == ParseArn(data.Arn)
       IN  IF p.err # NoErr
           THEN /\ err' = p.err
                /\ pc' = "failed"
                /\ data' = data
           ELSE /\ data' = [Type |-> p.Type, Name |-> p.Name,
                            RoleSessionName |-> p.RoleSessionName] @@ data
                /\ pc' = "sso"
                /\ err' = err
    /\ UNCHANGED <<arg, disable_account_alias, yielded, raised, calls, result,
                   out>>

\* Lines 144-151.
DetectSSO ==
    /\ pc = "sso"
    /\ data' = [SSOPermissionSet |-> SSOPermissionSet(data.Type, data.Name)]
               @@ data
    /\ pc' = "suppress"
    /\ UNCHANGED <<arg, disable_account_alias, yielded, raised, calls, err,
                   result, out>>

\* Lines 153-162.
Suppress ==
    /\ pc = "suppress"
    /\ data' = [AccountAliases |-> <<>>] @@ data
    /\ disable_account_alias' = SuppressLoop(disable_account_alias, data)
    /\ pc' = "decide"
    /\ UNCHANGED <<arg, yielded, raised, calls, err, result, out>>

\* Lines 163-166: the lookup is attempted when `not disable_account_alias`.
Lookup ==
    /\ pc = "decide"
    /\ IF PyNot(disable_account_alias)
       THEN /\ calls' = Append(calls, "iam")
            /\ pc' = "paging"
       ELSE /\ calls' = calls
            /\ pc' = "return"
    /\ UNCHANGED <<arg, disable_account_alias, data, yielded, raised, err,
                   result, out>>

\* Lines 167-171: the paginator yields a page, is exhausted, or raises.
NextPage ==
    /\ pc = "paging"
    /\ \/ /\ Len(yielded) < MaxPages
          /\ \E page \in Pages :
               /\ yielded' = Append(yielded, page)
               /\ data' = [data EXCEPT !.AccountAliases = @ \o page]
          /\ pc' = pc
          /\ UNCHANGED <<raised, err>>
       \/ /\ pc' = "return"
          /\ UNCHANGED <<data, yielded, raised, err>>
       \/ \E e \in ServiceErrors :
            /\ raised' = [by |-> "iam", e |-> e]
            /\ IF Swallowed(e)
               THEN pc' = "return" /\ err' = err
               ELSE pc' = "failed" /\ err' = e
            /\ UNCHANGED <<data, yielded>>
    /\ UNCHANGED <<arg, disable_account_alias, calls, result, out>>

\* Line 173.
Return ==
    /\ pc = "return"
    /\ result' = data
    /\ pc' = "done"
    /\ UNCHANGED <<arg, disable_account_alias, data, yielded, raised, calls,
                   err, out>>

\* main(), line 83: format_whoami() on the record whoami() returned.
FormatWhoami ==
    /\ pc = "done"
    /\ IF TypeStrRaises(result)
       THEN /\ out' = [err |-> IndexError]
            /\ pc' = "format_failed"
       ELSE /\ out' = [err |-> NoErr,
                       lines |-> FormatLines(result),
                       text |-> FormatText(FormatLines(result))]
            /\ pc' = "formatted"
    /\ UNCHANGED <<arg, disable_account_alias, data, yielded, raised, calls,
                   err, result>>

Next ==
    \/ Start
    \/ GetCallerIdentity
    \/ Parse
    \/ DetectSSO
    \/ Suppress
    \/ Lookup
    \/ NextPage
    \/ Return
    \/ FormatWhoami

Spec == Init /\ [][Next]_vars

----------------------------------------------------------------------------
(* Vocabulary of the properties.                                           *)

Count(seq, x) == Cardinality({ i \in 1..Len(seq) : seq[i] = x })
Positions(s, c) == { i \in 1..Len(s) : s[i] = c }
Min(S) == CHOOSE x \in S : \A y \in S : x <= y

\* whoami() has returned a record.
Returned == result # NoResult
\* The statements of lines 136-142 have run (or raised).
Parsed == "Arn" \in DOMAIN data /\ pc # "parse"
\* Lines 136-142 raised: whoami() ended without a record.
ParseFailed ==
    /\ pc = "failed"
    /\ err \in { IndexError, ValueError }
    /\ result = NoResult
    /\ "Type" \notin DOMAIN data
\* The alias paginator raised the AccessDenied ClientError.
DeniedByLister == raised.by = "iam" /\ raised.e = Exc("ClientError", AccessDenied)

\* A pattern matches a record, in the words of the specification.
ClaimMatch(p, d) ==
    \/ StartsWith(d.Account, p)
    \/ EndsWith(d.Account, p)
    \/ p = d.Name
    \/ p = d.Arn
    \/ (d.RoleSessionName # None /\ p = d.RoleSessionName)

\* The resource of a descriptor: the text after its last colon; and the text
\* after the first '/' of a resource.
Resource(arn) == SubSeq(arn, Max(Positions(arn, ":")) + 1, Len(arn))
AfterFirstSlash(r) == SubSeq(r, Min(Positions(r, "/")) + 1, Len(r))

\* No segment of the resource is empty: it neither starts nor ends with '/'
\* and holds no '//'.
NoEmptySegment(r) ==
    /\ Len(r) > 0
    /\ r[1] # "/"
    /\ r[Len(r)] # "/"
    /\ \A i \in 1..(Len(r) - 1) : ~(r[i] = "/" /\ r[i+1] = "/")

----------------------------------------------------------------------------
(* C1: with a pattern list none of whose patterns matches the record, the  *)
(* alias lister is invoked and the aliases it returns are attached to the  *)
(* returned record.                                                        *)
C1_UnmatchedListAttemptsLookup ==
    ( /\ Returned
      /\ arg.tag = "list"
      /\ \A i \in 1..Len(arg.list) : ~ClaimMatch(arg.list[i], result) )
    => /\ Count(calls, "iam") = 1
       /\ result.AccountAliases = Concat(yielded)

(* C2: with a pattern list one of whose patterns is a prefix or a suffix   *)
(* of the account id, or equals the principal name, the ARN or a present   *)
(* session name, the alias lister is never invoked and the record has no   *)
(* aliases; the loop decides to skip only on such a match, so an absent    *)
(* session name matches no pattern.                                        *)
C2_MatchSkipsLookup ==
    /\ ( /\ arg.tag = "list"
         /\ "AccountAliases" \in DOMAIN data
         /\ \E i \in 1..Len(arg.list) : ClaimMatch(arg.list[i], data) )
       => /\ disable_account_alias = Bool(TRUE)
          /\ Count(calls, "iam") = 0
          /\ data.AccountAliases = <<>>
          /\ (Returned => result.AccountAliases = <<>>)
    /\ (arg.tag = "list" /\ disable_account_alias = Bool(TRUE))
       => \E i \in 1..Len(arg.list) : ClaimMatch(arg.list[i], data)

C2_Witness ==
    /\ Returned
    /\ arg.tag = "list"
    /\ \E i \in 1..Len(arg.list) : arg.list[i] = result.RoleSessionName
    /\ calls = <<"sts">>
    /\ result.AccountAliases = <<>>

(* C3, as stated: when the alias lister raises AccessDenied at any point   *)
(* while its pages are drained, whoami returns a record whose              *)
(* AccountAliases is empty and no error is propagated.                     *)
C3_DeniedYieldsNoAliases ==
    DeniedByLister
    => /\ pc # "failed"
       /\ err = NoErr
       /\ (Returned => result.AccountAliases = <<>>)

(* C3, amended: when the alias lister raises AccessDenied, no error is     *)
(* propagated and the record returned holds the aliases of the pages       *)
(* yielded before the error: none when the error came before any page.     *)
C3_DeniedKeepsYieldedAliases ==
    DeniedByLister
    => /\ pc \in { "return", "done", "formatted", "format_failed" }
       /\ err = NoErr
       /\ data.AccountAliases = Concat(yielded)
       /\ (yielded = <<>> => data.AccountAliases = <<>>)
       /\ (Returned => result.AccountAliases = Concat(yielded))

C3_Witness ==
    /\ DeniedByLister
    /\ Returned
    /\ Len(yielded) = 1
    /\ result.AccountAliases = << <<"x">> >>

(* C4: an error of the identity-verification call, and an error of the     *)
(* alias lister other than AccessDenied, leaves whoami at once as that     *)
(* error, without a record; neither service is called more than once.      *)
C4_ErrorsPropagate ==
    /\ raised.by = "sts"
       => /\ pc = "failed"
          /\ err = raised.e
          /\ result = NoResult
          /\ calls = <<"sts">>
    /\ (raised.by = "iam" /\ ~DeniedByLister)
       => /\ pc = "failed"
          /\ err = raised.e
          /\ result = NoResult
          /\ calls = <<"sts", "iam">>
    /\ Count(calls, "sts") <= 1
    /\ Count(calls, "iam") <= 1
    /\ pc = "failed" => (result = NoResult /\ out = NoOut)

C4_Witness ==
    /\ pc = "failed"
    /\ raised = [by |-> "iam", e |-> Exc("ClientError", Throttling)]
    /\ err = Exc("ClientError", Throttling)
    /\ Len(yielded) = 1

(* C5, as stated: a descriptor with fewer than 5 colon-delimited segments  *)
(* before the resource makes the parsing fail, and no record is produced.  *)
C5_FewSegmentsFail ==
    (Parsed /\ Cardinality(Positions(data.Arn, ":")) < 5) => ParseFailed

(* C5, amended: a descriptor without any colon makes the parsing fail      *)
(* (with IndexError), and no record is produced.                           *)
C5_NoColonFails ==
    (Parsed /\ Cardinality(Positions(data.Arn, ":")) = 0)
    => (ParseFailed /\ err = IndexError)

C5_Witness ==
    /\ Parsed
    /\ data.Arn = <<"u","s","e","r","/","a">>
    /\ pc = "failed"
    /\ err = IndexError

\* The record's principal is an assumed role named AWSReservedSSO...
IsSSORole(d) == d.Type = AssumedRoleType /\ StartsWith(d.Name, AWSReservedSSO)
Underscores(d) == Positions(d.Name, "_")
BetweenUnderscores(d) ==
    SubSeq(d.Name, Min(Underscores(d)) + 1, Max(Underscores(d)) - 1)

(* C6, as stated: for an assumed role named AWSReservedSSO..., the         *)
(* permission set is the text between the first and the last underscore of *)
(* the name, and is absent, without an error, when the name has fewer than *)
(* two underscores.                                                        *)
C6_PermissionSetBetweenUnderscores ==
    /\ ("SSOPermissionSet" \in DOMAIN data /\ IsSSORole(data))
       => IF Cardinality(Underscores(data)) >= 2
          THEN data.SSOPermissionSet = BetweenUnderscores(data)
          ELSE data.SSOPermissionSet = None
    /\ (pc = "failed" /\ "Name" \in DOMAIN data) => raised.by = "iam"

(* C6, amended: the permission set is the text between the first and the   *)
(* last underscore of the name; with exactly one underscore it is the      *)
(* whole text after that underscore; without an underscore it is absent;   *)
(* no error is raised in any of these cases.                               *)
C6_PermissionSetAfterFirstUnderscore ==
    /\ ("SSOPermissionSet" \in DOMAIN data /\ IsSSORole(data))
       => IF Cardinality(Underscores(data)) >= 2
          THEN data.SSOPermissionSet = BetweenUnderscores(data)
          ELSE IF Cardinality(Underscores(data)) = 1
          THEN data.SSOPermissionSet =
                 SubSeq(data.Name, Min(Underscores(data)) + 1, Len(data.Name))
          ELSE data.SSOPermissionSet = None
    /\ (pc = "failed" /\ "Name" \in DOMAIN data) => raised.by = "iam"

C6_Witness ==
    /\ Returned
    /\ IsSSORole(result)
    /\ Cardinality(Underscores(result)) = 2
    /\ result.SSOPermissionSet = <<"a">>

(* C7: a record whose principal type is not assumed-role has no session    *)
(* name, has as principal name everything after the first '/' of the       *)
(* resource, and has no SSO permission set, whatever the name.             *)
C7_OtherTypesHaveNoSession ==
    (Returned /\ result.Type # AssumedRoleType)
    => /\ result.RoleSessionName = None
       /\ result.Name = AfterFirstSlash(Resource(result.Arn))
       /\ result.SSOPermissionSet = None

C7_Witness ==
    /\ Returned
    /\ result.Type = <<"u","s","e","r">>
    /\ result.Name = AWSReservedSSO \o <<"_","a","_">> \o <<"/","s">>
    /\ result.SSOPermissionSet = None
    /\ result.RoleSessionName = None

(* C8, as stated: every record returned has a non-empty principal type, a  *)
(* non-empty principal name, and a session name that is absent or          *)
(* non-empty and present exactly for the assumed-role type.                *)
C8_RecordInvariants ==
    Returned
    => /\ Len(result.Type) > 0
       /\ Len(result.Name) > 0
       /\ (result.RoleSessionName = None \/ Len(result.RoleSessionName) > 0)
       /\ (result.RoleSessionName # None <=> result.Type = AssumedRoleType)

(* C8, amended: every record returned has a session name exactly for the   *)
(* assumed-role type; its type, its name and a present session name are    *)
(* non-empty when no segment of the descriptor's resource is empty.        *)
C8_RecordInvariantsOfNonEmptySegments ==
    Returned
    => /\ (result.RoleSessionName # None <=> result.Type = AssumedRoleType)
       /\ NoEmptySegment(Resource(result.Arn))
          => /\ Len(result.Type) > 0
             /\ Len(result.Name) > 0
             /\ (result.RoleSessionName = None
                 \/ Len(result.RoleSessionName) > 0)

C8_Witness ==
    /\ Returned
    /\ NoEmptySegment(Resource(result.Arn))
    /\ result.Type = AssumedRoleType
    /\ result.Name = <<"a","/","a">>
    /\ result.RoleSessionName = <<"s">>

\* The place of a line in the list: 1 if the condition holds, else 0.
One(b) == IF b THEN 1 ELSE 0

\* The lines in the fixed order, given which of the optional lines are
\* emitted.
LinesInOrder(l, info, hasRegion, hasSSO, hasSession) ==
    LET n == Len(info.AccountAliases)
        k == n + 1 + One(hasRegion)
    IN  /\ Len(l) = k + 3 + One(hasSession)
        /\ l[1] = Line(AccountLabel, info.Account)
        /\ \A i \in 1..n : l[1 + i] = Line(<<>>, info.AccountAliases[i])
        /\ hasRegion => l[n + 2] = Line(RegionLabel, info.Region)
        /\ l[k + 1] = IF hasSSO
                      THEN Line(SSOLabel, info.SSOPermissionSet)
                      ELSE Line(TypeStr(info.Type) \o <<":", " ">>, info.Name)
        /\ hasSession => l[k + 2] = Line(SessionLabel, info.RoleSessionName)
        /\ l[Len(l) - 1] = Line(UserIdLabel, info.UserId)
        /\ l[Len(l)] = Line(ArnLabel, info.Arn)

(* C9, as stated: format_whoami emits Account, the aliases, Region when    *)
(* the region is present, the SSO line when the permission set is present  *)
(* and the principal-type line otherwise, the session line when the        *)
(* session name is present, UserId, Arn, in this order.                    *)
C9_LinesInOrderWhenPresent ==
    pc = "formatted"
    => LinesInOrder(out.lines, result,
                    result.Region # None,
                    result.SSOPermissionSet # None,
                    result.RoleSessionName # None)

(* C9, amended: when format_whoami returns, it has emitted Account, the    *)
(* aliases, Region always (showing None for an absent region), the SSO     *)
(* line when the permission set is present and not empty and the           *)
(* principal-type line otherwise, the session line when the session name   *)
(* is present and not empty, UserId, Arn, in this order.                   *)
C9_LinesInOrderRegionAlways ==
    pc = "formatted"
    => /\ LinesInOrder(out.lines, result,
                       TRUE,
                       result.SSOPermissionSet # None
                         /\ result.SSOPermissionSet # <<>>,
                       result.RoleSessionName # None
                         /\ result.RoleSessionName # <<>>)
       /\ out.err = NoErr

C9_Witness ==
    /\ pc = "formatted"
    /\ result.Region = None
    /\ Len(result.AccountAliases) = 2
    /\ result.RoleSessionName = <<"s">>
    /\ result.SSOPermissionSet = <<"a">>
    /\ Len(out.lines) = 8

====
